---- MODULE Spec2Model ----
(***************************************************************************)
(* BarItem (src/src/lib/bar-item.ts): the template driven renderer of a    *)
(* list of progresses.                                                     *)
(*                                                                         *)
(* A JavaScript string is a sequence of one-character strings, so that     *)
(* split, repeat, join and the placeholder pattern work on characters.     *)
(* Values that are not strings (undefined, null, a thrown RangeError, no   *)
(* call result yet) are one-element sequences holding a word that starts   *)
(* with "#"; no string of the model contains such an element.              *)
(*                                                                         *)
(* Progress and Eta are collaborators of BarItem (interfaces/*.ts, not in  *)
(* src/); they are modelled from section 4.1 and 4.2 of the specification. *)
(* The clock is counted in half seconds.  Ratios are kept exact: with the  *)
(* totals the model uses (2 and 4) value/total and its products are exact  *)
(* in IEEE doubles too, so Math.round sees the same number.                *)
(***************************************************************************)
EXTENDS Integers, Sequences, FiniteSets, TLC

VARIABLES
    progresses,   \* this.progresses: sequence of [value, total, tag, payload]
    template,     \* this.template
    options,      \* this.options: [completeChar, resumeChar, width, glue]
    formatters,   \* this.formatters: key -> formatter
    dataProviders,\* params.dataProviders, spread over the built-in ones
    now,          \* the clock, in half seconds since the progresses were made
    map,          \* the counter Map of the latest call, when it was render()
    repl,         \* what its replacer callback saw and returned, per match
    ret,          \* what the latest call returned, NoCall after increment()
    retAt,        \* the clock at that call
    prevRet,      \* what the render() call right before the latest returned
    prevAt        \* the clock at that call

vars == <<progresses, template, options, formatters, dataProviders, now, map,
          repl, ret, retAt, prevRet, prevAt>>

---------------------------------------------------------------------------
\* Bounds of the model.
MaxValue == 6
MaxNow == 2

\* Values that are not strings.
Undefined == <<"#undefined">>
Null == <<"#null">>
RangeError == <<"#RangeError">>
NoCall == <<"#nocall">>

\* The strings the model uses.
s_bars == <<"b","a","r","s">>
s_bar == <<"b","a","r">>
s_speed == <<"s","p","e","e","d">>
s_eta == <<"e","t","a">>
s_value == <<"v","a","l","u","e">>
s_total == <<"t","o","t","a","l">>
s_percentage == <<"p","e","r","c","e","n","t","a","g","e">>
s_duration == <<"d","u","r","a","t","i","o","n">>
s_undefined == <<"u","n","d","e","f","i","n","e","d">>
s_NaN == <<"N","a","N">>
s_Infinity == <<"I","n","f","i","n","i","t","y">>
s_x == <<"x">>
s_custom == <<"c","u","s","t","o","m">>
Empty == << >>

\* "{" + name + "}"
Ph(name) == <<"{">> \o name \o <<"}">>

\* Array.prototype.join
RECURSIVE join(_, _)
join(parts, sep) ==
    IF Len(parts) = 0 THEN Empty
    ELSE IF Len(parts) = 1 THEN parts[1]
    ELSE parts[1] \o sep \o join(Tail(parts), sep)

\* Array.prototype.reverse
reverse(s) == [i \in 1..Len(s) |-> s[Len(s) + 1 - i]]

\* String.prototype.split on a one-character separator: the pieces between
\* every occurrence of the separator, empty pieces included.
RECURSIVE split(_, _)
split(s, sep) ==
    LET hits == {i \in 1..Len(s) : s[i] = sep}
    IN  IF hits = {} THEN <<s>>
        ELSE LET k == CHOOSE i \in hits : \A j \in hits : i <= j
             IN  <<SubSeq(s, 1, k - 1)>> \o split(SubSeq(s, k + 1, Len(s)), sep)

\* String.prototype.repeat: throws a RangeError on a negative count.
repeat(str, count) ==
    IF count < 0 THEN RangeError
    ELSE [j \in 1..(count * Len(str)) |-> str[((j - 1) % Len(str)) + 1]]

\* Number.prototype.toString of an integer.
Digits == <<"0","1","2","3","4","5","6","7","8","9">>
RECURSIVE NatToString(_)
NatToString(n) ==
    IF n < 10 THEN <<Digits[n + 1]>>
    ELSE NatToString(n \div 10) \o <<Digits[(n % 10) + 1]>>
IntToString(n) == IF n < 0 THEN <<"-">> \o NatToString(-n) ELSE NatToString(n)

\* Numbers that need not be integers: NaN, Infinity, or the quotient n/d (d > 0).
NaN == [kind |-> "NaN", n |-> 0, d |-> 1]
Infinity == [kind |-> "Infinity", n |-> 0, d |-> 1]
Quot(n, d) == [kind |-> "quot", n |-> n, d |-> d]

RECURSIVE gcd(_, _)
gcd(a, b) == IF b = 0 THEN a ELSE gcd(b, a % b)
Abs(n) == IF n < 0 THEN -n ELSE n

\* Math.round: the nearest integer, a half goes up; NaN and Infinity stay.
MathRoundTrunc(n, d) == n \div d
MathRound(n, d) == (2 * n + d) \div (2 * d)
Round(num) == IF num.kind = "quot" THEN Quot(MathRound(num.n, num.d), 1) ELSE num

\* Number to string.  An integer is its digits.  A quotient that is not an
\* integer is written as its reduced fraction "n/d", which stands for the
\* decimal text of the double: both are different for different quotients.
NumberToString(num) ==
    IF num.kind = "NaN" THEN s_NaN
    ELSE IF num.kind = "Infinity" THEN s_Infinity
    ELSE LET g == gcd(Abs(num.n), num.d)
             n == num.n \div g
             d == num.d \div g
         IN  IF d = 1 THEN IntToString(n)
             ELSE IntToString(n) \o <<"/">> \o NatToString(d)

---------------------------------------------------------------------------
\* Progress and Eta, from the specification.
getProgress(p) == Quot(p.value, p.total)
getTag(p) == p.tag
getPayload(p) == p.payload
getValue(p) == p.value
getTotal(p) == p.total

\* (currentValue - startValue) / elapsedSeconds; the start value is 0.
getSpeed(p) ==
    IF now = 0 THEN (IF p.value = 0 THEN NaN ELSE Infinity)
    ELSE Quot(2 * p.value, now)

\* (total - currentValue) / speed; NaN when the speed is zero or negative.
getEtaS(p) ==
    IF p.value = 0 THEN NaN
    ELSE IF now = 0 THEN Quot(0, 1)
    ELSE Quot((p.total - p.value) * now, 2 * p.value)

\* milliseconds since the progress was made
getDurationMs(p) == Quot(500 * now, 1)

---------------------------------------------------------------------------
\* BarItem

\* this.tagDelimiter = params?.tagDelimiter ?? '_'
tagDelimiter == "_"

\* A formatter of params.formatters, as in the composite example: it marks the
\* string with the position of the progress in the list.
formatter(f, str, i) == <<"<">> \o IntToString(i - 1) \o <<":">> \o str \o <<">">>

\* `${x}` of a tag: an absent tag prints as "undefined".
TemplateString(tag) == IF tag = Undefined THEN s_undefined ELSE tag

\* formatNumber of the constructor
formatNumber(num, suffix) ==
    IF num.kind = "NaN" THEN s_NaN ELSE NumberToString(num) \o suffix

\* getBarParts: both strings are made, so either repeat may throw.
getBarParts(size) ==
    [done |-> repeat(options.completeChar, size),
     left |-> repeat(options.resumeChar, options.width - size)]
Threw(parts) == parts.done = RangeError \/ parts.left = RangeError

\* bar(done, progress) with done = progress.getProgress()
bar(p) ==
    LET done == getProgress(p)
        size == MathRound(done.n * options.width, done.d)
        parts == getBarParts(size)
    IN  IF Threw(parts) THEN RangeError
        ELSE parts.done \o options.glue \o parts.left

\* renderBarsLine(length, item, progresses); item is a position in the list
renderBarsLine(length, i) ==
    LET parts == getBarParts(length)
        own == TemplateString(getTag(progresses[i])) \o <<tagDelimiter>> \o s_bar
    IN  IF Threw(parts) THEN RangeError
        ELSE IF own \in DOMAIN formatters
        THEN formatter(formatters[own], parts.done, i)
        ELSE IF s_bar \in DOMAIN formatters
        THEN formatter(formatters[s_bar], parts.done, i)
        ELSE parts.done

\* the comparator of renderBars: Math.sign(a.size - b.size)
compareReversed(a, b) ==
    IF b.size - a.size > 0 THEN 1 ELSE IF b.size - a.size < 0 THEN -1 ELSE 0
compare(a, b) ==
    IF a.size - b.size > 0 THEN 1 ELSE IF a.size - b.size < 0 THEN -1 ELSE 0

\* Array.prototype.sort, which is stable: an element goes before the first
\* one the comparator puts after it.
RECURSIVE insert(_, _)
insert(sorted, x) ==
    IF sorted = << >> THEN <<x>>
    ELSE IF compare(Head(sorted), x) > 0 THEN <<x>> \o sorted
    ELSE <<Head(sorted)>> \o insert(Tail(sorted), x)
RECURSIVE sort(_)
sort(s) ==
    IF s = << >> THEN << >>
    ELSE insert(sort(SubSeq(s, 1, Len(s) - 1)), s[Len(s)])

\* the reducer of renderBars over the sorted entries; threw is set when
\* renderBarsLine throws, which ends renderBars
RECURSIVE reduce(_, _, _)
reduce(s, prev, lines) ==
    IF s = << >> THEN [lines |-> lines, size |-> prev, threw |-> FALSE]
    ELSE LET current == Head(s)
             length == current.size - prev
         IN  IF length > 0
             THEN LET line == renderBarsLine(length, current.item)
                  IN  IF line = RangeError
                      THEN [lines |-> lines, size |-> prev, threw |-> TRUE]
                      ELSE reduce(Tail(s), current.size, Append(lines, line))
             ELSE reduce(Tail(s), current.size, lines)

\* renderBars(progresses): the end of it, once the reducer has run, and the
\* whole of it
fillAndJoin(leftLength) ==
    IF leftLength.threw THEN RangeError
    ELSE IF options.width - leftLength.size > 0
    THEN join(Append(leftLength.lines,
                     repeat(options.resumeChar,
                            options.width - leftLength.size)),
              options.glue)
    ELSE join(leftLength.lines, options.glue)
renderBars ==
    fillAndJoin(
        reduce(sort([i \in 1..Len(progresses) |->
                       [size |-> MathRound(
                                     getProgress(progresses[i]).n * options.width,
                                     getProgress(progresses[i]).d),
                        item |-> i, index |-> i - 1]]),
               0, << >>))

\* The names of the built-in data providers of the constructor.
BuiltIn == {s_bars, s_bar, s_speed, s_eta, s_value, s_total, s_percentage,
            s_duration}

\* this.dataProviders[key](item, this.progresses): a provider of
\* params.dataProviders replaces the built-in one of its name.  A provider of
\* params.dataProviders is modelled by the string it returns.
provider(key, i) ==
    LET progress == progresses[i]
    IN  IF key \in DOMAIN dataProviders THEN dataProviders[key]
        ELSE IF key = s_bars THEN renderBars
        ELSE IF key = s_bar THEN bar(progress)
        ELSE IF key = s_speed
        THEN formatNumber(Round(getSpeed(progress)), <<"/", "s">>)
        ELSE IF key = s_eta THEN formatNumber(getEtaS(progress), <<"s">>)
        ELSE IF key = s_value THEN IntToString(getValue(progress))
        ELSE IF key = s_total THEN IntToString(getTotal(progress))
        ELSE IF key = s_percentage
        THEN IntToString(MathRound(getProgress(progress).n * 100,
                                   getProgress(progress).d)) \o <<"%">>
        ELSE NumberToString(Round(Quot(getDurationMs(progress).n, 1000)))
                 \o <<"s">>

\* getDataValue(key, item): the payload entry, else the data provider, else null
getDataValueProviderFirst(key, i) ==
    LET payload == getPayload(progresses[i])
    IN  IF key \in DOMAIN dataProviders \cup BuiltIn THEN provider(key, i)
        ELSE IF key \in DOMAIN payload THEN payload[key]
        ELSE Null
getDataValue(key, i) ==
    LET payload == getPayload(progresses[i])
        value == IF key \in DOMAIN payload THEN payload[key] ELSE Null
    IN  IF value = Null /\ key \in DOMAIN dataProviders \cup BuiltIn
        THEN provider(key, i)
        ELSE value

\* getCounterByProperty: `new Map()`, then the closure over it.  next gives
\* the index the closure returns and the Map it leaves.
newMapKept == map
newMap == [k \in {} |-> 0]
next(m, key, max) ==
    LET index == IF key \in DOMAIN m THEN m[key] ELSE 0
    IN  [map |-> (key :> (index + 1)) @@ m,
         index |-> IF index >= max THEN -1 ELSE index]

\* this.progresses.findIndex(p => p.getTag() === tag)
findIndex(tag) ==
    LET hits == {i \in 1..Len(progresses) : getTag(progresses[i]) = tag}
    IN  IF hits = {} THEN -1
        ELSE (CHOOSE i \in hits : \A j \in hits : i <= j) - 1

\* prop.split(this.tagDelimiter).reverse(), destructured as [property, tag]
destructure(prop) ==
    LET parts == reverse(split(prop, tagDelimiter))
    IN  [property |-> parts[1],
         tag |-> IF Len(parts) >= 2 THEN parts[2] ELSE Undefined]

\* The replacer callback of render() for one match, with the counter Map m.
\* resolved is the callback from `if (index < 0)` on, where value is what
\* getDataValue returned (Undefined when it was not called).  rec is what the
\* callback saw; its ret is RangeError when getDataValue threw.
resolvedByProperty(match, prop, d, index, value) ==
    [match |-> match, prop |-> prop, property |-> d.property, tag |-> d.tag,
     index |-> index, value |-> value,
     ret |-> IF index < 0 THEN match
             ELSE IF value = Null THEN match
             ELSE IF value = RangeError THEN RangeError
             ELSE IF d.property \in DOMAIN formatters
             THEN formatter(formatters[d.property], value, index + 1)
             ELSE value]
resolved(match, prop, d, index, value) ==
    [match |-> match, prop |-> prop, property |-> d.property, tag |-> d.tag,
     index |-> index, value |-> value,
     ret |-> IF index < 0 THEN match
             ELSE IF value = Null THEN match
             ELSE IF value = RangeError THEN RangeError
             ELSE IF prop \in DOMAIN formatters
             THEN formatter(formatters[prop], value, index + 1)
             ELSE value]
indexed(match, prop, d, index) ==
    resolved(match, prop, d, index,
             IF index < 0 THEN Undefined ELSE getDataValue(d.property, index + 1))
replacer(match, prop, m) ==
    LET d == destructure(prop)
        byTag == d.tag # Undefined /\ d.tag # Empty
        n == next(m, d.property, Len(progresses))
    IN  [map |-> IF byTag THEN m ELSE n.map,
         rec |-> indexed(match, prop, d,
                         IF byTag THEN findIndex(d.tag) ELSE n.index)]

\* The pattern /{([^{}]+)}/g: RunEnd is the end of the run of characters
\* other than braces that starts at i; there is a match at i when t[i] is
\* "{", the run after it is not empty and "}" follows it.
RunEnd(t, i) ==
    LET ends == {j \in i..(Len(t) + 1) : j > Len(t) \/ t[j] \in {"{", "}"}}
    IN  CHOOSE j \in ends : \A e \in ends : j <= e
MatchAt(t, i) ==
    /\ t[i] = "{"
    /\ RunEnd(t, i + 1) > i + 1
    /\ RunEnd(t, i + 1) <= Len(t)
    /\ t[RunEnd(t, i + 1)] = "}"

\* String.prototype.replace with the replacer, from position i on: the text up
\* to the next match is kept, the match is replaced, and the search goes on
\* after it.  st is the output so far, the counter Map and the records of the
\* matches; a replacer that throws ends the call.
RECURSIVE replace(_, _, _)
replaced(t, i, b, e, st, r) ==
    IF r.rec.ret = RangeError
    THEN [out |-> RangeError, map |-> r.map, repl |-> Append(st.repl, r.rec)]
    ELSE replace(t, e + 1,
                 [out |-> st.out \o SubSeq(t, i, b - 1) \o r.rec.ret,
                  map |-> r.map,
                  repl |-> Append(st.repl, r.rec)])
matched(t, i, b, e, st) ==
    replaced(t, i, b, e, st,
             replacer(SubSeq(t, b, e), SubSeq(t, b + 1, e - 1), st.map))
replace(t, i, st) ==
    LET starts == {j \in i..Len(t) : MatchAt(t, j)}
    IN  IF starts = {}
        THEN [st EXCEPT !.out = @ \o SubSeq(t, i, Len(t))]
        ELSE LET b == CHOOSE j \in starts : \A o \in starts : j <= o
             IN  matched(t, i, b, RunEnd(t, b + 1), st)

\* render()
render == replace(template, 1, [out |-> Empty, map |-> newMap, repl |-> << >>])

\* getDefaultTemplate(progresses)
getDefaultTemplate(ps) ==
    LET each(piece, sep) == join([i \in 1..Len(ps) |-> piece], sep)
    IN  IF Len(ps) > 1
        THEN <<"[">> \o Ph(s_bars) \o <<"]", " ">>
             \o each(Ph(s_percentage), <<"/">>)
             \o <<" ", "E", "T", "A", ":", " ">> \o each(Ph(s_eta), <<"/">>)
             \o <<" ">> \o s_speed \o <<":", " ">> \o each(Ph(s_speed), <<"/">>)
             \o <<" ">> \o s_duration \o <<":", " ">>
             \o each(Ph(s_duration), <<"/">>)
             \o <<" ">> \o each(Ph(s_value) \o <<"/">> \o Ph(s_total), <<" ">>)
        ELSE <<"[">> \o Ph(s_bar) \o <<"]", " ">> \o Ph(s_percentage)
             \o <<" ", "E", "T", "A", ":", " ">> \o Ph(s_eta)
             \o <<" ">> \o s_speed \o <<":", " ">> \o Ph(s_speed)
             \o <<" ">> \o s_duration \o <<":", " ">> \o Ph(s_duration)
             \o <<" ">> \o Ph(s_value) \o <<"/">> \o Ph(s_total)

---------------------------------------------------------------------------
\* Construction

\* the field initialiser of options
defaultOptions ==
    [completeChar |-> <<"=">>, resumeChar |-> <<"-">>, width |-> 40,
     glue |-> Empty]

\* new BarItem(progresses, params): the fields after the constructor.  A
\* params.template that is Undefined was not given.
BarItem(ps, params) ==
    [progresses |-> ps,
     template |-> IF params.template = Undefined THEN getDefaultTemplate(ps)
                  ELSE params.template,
     options |-> params.options @@ defaultOptions,
     formatters |-> params.formatters,
     dataProviders |-> params.dataProviders]

\* new Progress({ total, tag, payload })
Progress(total, tag, payload) ==
    [value |-> 0, total |-> total, tag |-> tag, payload |-> payload]

\* The inputs of the constructor the model draws from.
t_a == <<"a">>
t_b == <<"b">>
t_w == <<"w">>
t_m_w == <<"m", "_", "w">>
s_y == <<"y">>
Key(tag, property) == tag \o <<tagDelimiter>> \o property
Sp == <<" ">>

NoPayload == [k \in {} |-> Empty]
Custom == (s_value :> s_custom) @@ (s_x :> <<"p">>)

NoFormatters == [k \in {} |-> "mark"]
TaggedFormatters ==
    (s_value :> "mark") @@ (Key(t_a, s_value) :> "mark")
        @@ (Key(t_a, s_bar) :> "mark")
BarFormatter == (s_bar :> "mark")

NoProviders == [k \in {} |-> Empty]
UserProviders == (s_x :> <<"u">>) @@ (s_total :> <<"T">>)

NoOptions == [k \in {} |-> 0]
Narrow == [width |-> 4]
Glued == [width |-> 3, glue |-> <<"|">>]

tpl_positional ==
    Ph(s_value) \o Sp \o Ph(s_total) \o Sp \o Ph(s_value) \o Sp \o Ph(s_value)
tpl_tags == Ph(Key(t_a, s_value)) \o Sp \o Ph(Key(t_b, s_value))
tpl_delimited == Ph(Key(t_m_w, s_bar))
tpl_emptyTag == Ph(Key(Empty, s_value)) \o Sp \o Ph(s_value)
tpl_emptyPiece == Ph(Key(Key(t_a, Empty), s_value)) \o Sp \o Ph(s_value)
tpl_unknown ==
    Ph(s_x) \o <<"/">> \o Ph(s_value) \o <<"/">> \o Ph(s_y) \o Sp
        \o Ph(s_x) \o <<"/">> \o Ph(s_value)
tpl_braces == <<"{", "}", "{">> \o Ph(s_value) \o <<"}", "{">>
tpl_bar == Ph(s_bar) \o Sp \o Ph(Key(t_a, s_bar))
tpl_bars == <<"[">> \o Ph(s_bars) \o <<"]">>

BindingLists ==
    {<<Progress(4, Undefined, Custom)>>,
     <<Progress(4, Undefined, Custom), Progress(2, Undefined, NoPayload)>>,
     <<Progress(4, t_a, Custom), Progress(2, t_b, NoPayload)>>,
     <<Progress(2, t_b, NoPayload), Progress(4, t_a, Custom)>>,
     <<Progress(4, t_m_w, Custom), Progress(2, t_w, NoPayload)>>}
BindingParams ==
    [template : {tpl_positional, tpl_tags, tpl_delimited, tpl_emptyTag,
                 tpl_emptyPiece, tpl_unknown, tpl_braces},
     options : {Narrow},
     formatters : {NoFormatters, TaggedFormatters},
     dataProviders : {NoProviders, UserProviders}]

BarLists ==
    {<<Progress(4, Undefined, NoPayload)>>,
     <<Progress(4, Undefined, NoPayload), Progress(2, Undefined, NoPayload)>>,
     <<Progress(4, t_a, NoPayload), Progress(2, t_b, NoPayload)>>,
     <<Progress(2, t_b, NoPayload), Progress(4, t_a, NoPayload)>>}
BarParams ==
    [template : {tpl_bar, tpl_bars},
     options : {Narrow, Glued},
     formatters : {NoFormatters, TaggedFormatters, BarFormatter},
     dataProviders : {NoProviders}]
DefaultParams ==
    [template : {Undefined},
     options : {NoOptions},
     formatters : {NoFormatters},
     dataProviders : {NoProviders}]

TripleLists ==
    {<<Progress(4, t_a, NoPayload), Progress(4, Undefined, NoPayload),
       Progress(2, t_b, NoPayload)>>}
TripleParams ==
    [template : {tpl_bars},
     options : {Narrow, Glued},
     formatters : {NoFormatters, TaggedFormatters},
     dataProviders : {NoProviders}]

Items ==
    {BarItem(ps, params) : ps \in BindingLists, params \in BindingParams}
        \cup {BarItem(ps, params) : ps \in BarLists,
                                    params \in BarParams \cup DefaultParams}
        \cup {BarItem(ps, params) : ps \in TripleLists, params \in TripleParams}

Amounts == {1, 3}

---------------------------------------------------------------------------
\* The state machine

Init ==
    \E item \in Items :
        /\ progresses = item.progresses
        /\ template = item.template
        /\ options = item.options
        /\ formatters = item.formatters
        /\ dataProviders = item.dataProviders
        /\ now = 0
        /\ map = << >>
        /\ repl = << >>
        /\ ret = NoCall
        /\ retAt = 0
        /\ prevRet = NoCall
        /\ prevAt = 0

\* progress.increment(amount) on the i-th progress: no clamp to total
Increment(i, amount) ==
    /\ progresses[i].value + amount <= MaxValue
    /\ progresses' = [progresses EXCEPT ![i].value = @ + amount]
    /\ ret' = NoCall
    /\ prevRet' = NoCall
    /\ retAt' = 0
    /\ prevAt' = 0
    /\ map' = << >>
    /\ repl' = << >>
    /\ UNCHANGED <<template, options, formatters, dataProviders, now>>

\* half a second passes
Tick ==
    /\ now < MaxNow
    /\ now' = now + 1
    /\ UNCHANGED <<progresses, template, options, formatters, dataProviders,
                   map, repl, ret, retAt, prevRet, prevAt>>

\* a call of render()
Render ==
    \E r \in {render} :
        /\ ret' = r.out
        /\ map' = r.map
        /\ repl' = r.repl
        /\ retAt' = now
        /\ prevRet' = ret
        /\ prevAt' = retAt
        /\ UNCHANGED <<progresses, template, options, formatters,
                       dataProviders, now>>

Next ==
    \/ \E i \in 1..Len(progresses), amount \in Amounts : Increment(i, amount)
    \/ Tick
    \/ Render

Spec == Init /\ [][Next]_vars

---------------------------------------------------------------------------
\* What the claims speak of

IsString(v) == v \notin {Undefined, Null, RangeError, NoCall}

\* the character cells of a bar: its completeChar and resumeChar characters
Cells(str) ==
    Cardinality({j \in 1..Len(str) :
                    str[j] \in {options.completeChar[1], options.resumeChar[1]}})

\* The placeholder syntax {property} or {tag<delimiter>property} of the
\* specification: the content split once on the delimiter from the right.
LastDelimiter(prop) ==
    LET hits == {j \in 1..Len(prop) : prop[j] = tagDelimiter}
    IN  IF hits = {} THEN 0 ELSE CHOOSE j \in hits : \A h \in hits : h <= j
PropertyOf(prop) == SubSeq(prop, LastDelimiter(prop) + 1, Len(prop))
TagOf(prop) ==
    IF LastDelimiter(prop) = 0 THEN Undefined
    ELSE SubSeq(prop, 1, LastDelimiter(prop) - 1)
Untagged(prop) == TagOf(prop) \in {Undefined, Empty}

\* round(value * width / total), a half going up, said without Math.round
Nearest(p) ==
    CHOOSE r \in 0..(p.value * options.width) :
        /\ 2 * r * p.total <= 2 * p.value * options.width + p.total
        /\ 2 * p.value * options.width + p.total < 2 * (r + 1) * p.total

\* count copies of a one-character string
Fill(ch, count) == [j \in 1..count |-> ch[1]]

\* the position of the progress a match is bound to, and the progress
Bound(k) == repl[k].index + 1
OwnData(k) ==
    /\ repl[k].index >= 0
    /\ repl[k].property \notin DOMAIN getPayload(progresses[Bound(k)])
    /\ repl[k].property \notin DOMAIN dataProviders

---------------------------------------------------------------------------
\* C1: whatever the increments so far, overshoot included, the value of the
\* combined `bars` placeholder holds at most `width` character cells
\* (completeChar and resumeChar cells, glue not counted).
C1_BarsWithinWidth ==
    \A k \in DOMAIN repl :
        (repl[k].property = s_bars /\ OwnData(k) /\ IsString(repl[k].value))
            => Cells(repl[k].value) <= options.width

\* C2: rendering never repeats a character a negative number of times: the
\* `bar` data provider returns a string for every progress state that
\* increments reach, value > total included, and throws no error.
C2_BarNeverThrows ==
    \A k \in DOMAIN repl :
        (repl[k].property = s_bar /\ OwnData(k)) => repl[k].value # RangeError

\* C3: the N-th occurrence (from 0, left to right, counted per property name)
\* among the placeholders of property p that carry no tag is bound to
\* progresses[N] when N < number of progresses and is left as its literal
\* text otherwise; placeholders that carry a tag are not counted.
Occurrence(k) ==
    Cardinality({j \in 1..(k - 1) :
                    /\ Untagged(repl[j].prop)
                    /\ PropertyOf(repl[j].prop) = PropertyOf(repl[k].prop)})
C3_PositionalBinding ==
    \A k \in DOMAIN repl :
        Untagged(repl[k].prop) =>
            IF Occurrence(k) < Len(progresses)
            THEN repl[k].index = Occurrence(k)
            ELSE repl[k].index = -1 /\ repl[k].ret = repl[k].match

\* C4: a placeholder {tag_property} is bound to the progress of the list whose
\* tag equals tag, wherever that progress stands in the list, and is left as
\* its literal text when no progress of the list has that tag.
C4_TagBinding ==
    \A k \in DOMAIN repl :
        ~Untagged(repl[k].prop) =>
            LET owners == {i \in 1..Len(progresses) :
                              getTag(progresses[i]) = TagOf(repl[k].prop)}
            IN  IF owners = {}
                THEN repl[k].index = -1 /\ repl[k].ret = repl[k].match
                ELSE Bound(k) \in owners

\* C9: the content of a placeholder is split once on the delimiter from the
\* right: the property is the part after the last delimiter and the tag is
\* everything before it, so {m_w_bar} is property bar of the progress tagged
\* "m_w".
C9_SplitOnceFromTheRight ==
    \A k \in DOMAIN repl : \A i \in 1..Len(progresses) :
        (/\ getTag(progresses[i]) # Undefined
         /\ repl[k].prop = Key(getTag(progresses[i]), PropertyOf(repl[k].prop)))
            => /\ repl[k].property = PropertyOf(repl[k].prop)
               /\ repl[k].tag = getTag(progresses[i])
               /\ Bound(k) = i

\* C5: the value of a placeholder bound to a progress is the payload entry of
\* the property when the payload has one, a data provider of that name
\* notwithstanding; else what the data provider of the property returns; and
\* with neither the placeholder text is output unchanged.  (Read in the
\* states where the clock still shows the time of the call.)
C5_ValueResolutionOrder ==
    \A k \in DOMAIN repl :
        (repl[k].index >= 0 /\ retAt = now) =>
            LET key == repl[k].property
                payload == getPayload(progresses[Bound(k)])
            IN  IF key \in DOMAIN payload
                THEN repl[k].value = payload[key]
                ELSE IF key \in DOMAIN dataProviders \cup BuiltIn
                THEN repl[k].value = provider(key, Bound(k))
                ELSE repl[k].value = Null /\ repl[k].ret = repl[k].match
\* a render where {value} gave the payload's "custom", another placeholder
\* gave its provider's text and {y} stayed as it was
C5_Witness ==
    /\ \E k \in DOMAIN repl :
          /\ repl[k].property = s_value
          /\ repl[k].index >= 0
          /\ s_value \in DOMAIN getPayload(progresses[Bound(k)])
          /\ repl[k].value = s_custom
    /\ \E k \in DOMAIN repl :
          /\ repl[k].property = s_value
          /\ OwnData(k)
          /\ repl[k].value = <<"3">>
    /\ \E k \in DOMAIN repl :
          /\ repl[k].property = s_y
          /\ repl[k].index >= 0
          /\ repl[k].ret = Ph(s_y)

\* C7: for a progress with 0 <= value <= total the `bar` data provider gives
\* round(value/total * width) copies of completeChar, then glue, then
\* width - round(value/total * width) copies of resumeChar: width cells
\* besides the glue.
C7_SingleBarShape ==
    \A k \in DOMAIN repl :
        (/\ repl[k].property = s_bar
         /\ OwnData(k)
         /\ getValue(progresses[Bound(k)]) <= getTotal(progresses[Bound(k)]))
            => LET done == Nearest(progresses[Bound(k)])
                   str == repl[k].value
                   g == Len(options.glue)
               IN  /\ IsString(str)
                   /\ Len(str) = options.width + g
                   /\ SubSeq(str, 1, done) = Fill(options.completeChar, done)
                   /\ SubSeq(str, done + 1, done + g) = options.glue
                   /\ SubSeq(str, done + g + 1, Len(str))
                          = Fill(options.resumeChar, options.width - done)
\* a bar of a progress at 3 of 4 with width 3: 2.25 rounds to 2
C7_Witness ==
    \E k \in DOMAIN repl :
        /\ repl[k].property = s_bar
        /\ OwnData(k)
        /\ getValue(progresses[Bound(k)]) = 3
        /\ getTotal(progresses[Bound(k)]) = 4
        /\ repl[k].value = <<"=", "=", "|", "-">>

\* C8: a resolved placeholder is replaced by what the formatter registered
\* under its whole bracket content returns, and by the raw value when no
\* formatter is registered under that key (one registered under the bare
\* property does not apply to a tagged placeholder); an unresolved placeholder
\* keeps its text and meets no formatter.
C8_FormatterByFullKey ==
    \A k \in DOMAIN repl :
        IF repl[k].index >= 0 /\ IsString(repl[k].value)
        THEN IF repl[k].prop \in DOMAIN formatters
             THEN repl[k].ret
                     = formatter(formatters[repl[k].prop], repl[k].value, Bound(k))
             ELSE repl[k].ret = repl[k].value
        ELSE repl[k].ret \in {repl[k].match, RangeError}
\* {bar} went through the formatter registered under "bar" and {a_bar} did not
C8_Witness ==
    /\ DOMAIN formatters = {s_bar}
    /\ \E k \in DOMAIN repl :
          /\ repl[k].prop = s_bar
          /\ IsString(repl[k].value)
          /\ repl[k].ret # repl[k].value
    /\ \E k \in DOMAIN repl :
          /\ repl[k].prop = Key(t_a, s_bar)
          /\ IsString(repl[k].value)
          /\ repl[k].ret = repl[k].value

\* C6: two render() calls in a row, with no increment() between them, return
\* the same string: the occurrence counters of the first call are not carried
\* into the second and the first call leaves the progress list as it was.
C6_RenderIdempotent ==
    (ret # NoCall /\ prevRet # NoCall) => ret = prevRet
\* C6 as amended: ... provided the clock reads the same at both calls or no
\* placeholder of the template has the property speed, eta or duration.
ClockBound ==
    \E k \in DOMAIN repl : repl[k].property \in {s_speed, s_eta, s_duration}
C6_RenderIdempotentOffClock ==
    (ret # NoCall /\ prevRet # NoCall /\ (retAt = prevAt \/ ~ClockBound))
        => ret = prevRet
\* two calls half a second or more apart, each binding the second {value} to
\* the second progress and leaving the third {value} as it was
C6_Witness ==
    /\ ret # NoCall
    /\ prevRet = ret
    /\ retAt # prevAt
    /\ template = tpl_positional
    /\ getValue(progresses[1]) > 0
    /\ \E k \in DOMAIN repl : repl[k].property = s_value /\ repl[k].index = 1
    /\ \E k \in DOMAIN repl : repl[k].property = s_value /\ repl[k].index = -1

\* C10: when every ratio is in [0,1] the value of `bars` is made of one
\* segment per distinct positive size round(ratio * width), in ascending
\* order of size, as long as that size less the distinct size before it (0
\* at first), rendered for the first progress of the list that has the size,
\* then width - (largest size) resumeChar cells when that is positive, all
\* joined by glue; a progress of size 0 or of the size of an earlier progress
\* of the list gives no segment.
Sizes == [i \in 1..Len(progresses) |-> Nearest(progresses[i])]
DistinctSizes == {Sizes[i] : i \in 1..Len(progresses)} \ {0}
Least(S) == CHOOSE x \in S : \A y \in S : x <= y
Greatest(S) == CHOOSE x \in S : \A y \in S : y <= x
SizeBefore(size) == Greatest({0} \cup {d \in DistinctSizes : d < size})
FirstOfSize(size) == Least({i \in 1..Len(progresses) : Sizes[i] = size})
SegmentFor(i, length) ==
    LET own == Key(TemplateString(getTag(progresses[i])), s_bar)
        line == Fill(options.completeChar, length)
    IN  IF own \in DOMAIN formatters THEN formatter(formatters[own], line, i)
        ELSE IF s_bar \in DOMAIN formatters
        THEN formatter(formatters[s_bar], line, i)
        ELSE line
RECURSIVE Segments(_)
Segments(sizes) ==
    IF sizes = {} THEN << >>
    ELSE LET size == Least(sizes)
         IN  <<SegmentFor(FirstOfSize(size), size - SizeBefore(size))>>
                 \o Segments(sizes \ {size})
ExpectedBars ==
    LET rest == options.width - Greatest({0} \cup DistinctSizes)
    IN  join(Segments(DistinctSizes)
                 \o (IF rest > 0 THEN <<Fill(options.resumeChar, rest)>>
                     ELSE << >>),
             options.glue)
C10_CombinedBarStructure ==
    \A k \in DOMAIN repl :
        (/\ repl[k].property = s_bars
         /\ OwnData(k)
         /\ \A i \in 1..Len(progresses) :
               getValue(progresses[i]) <= getTotal(progresses[i]))
            => repl[k].value = ExpectedBars
\* three progresses of sizes 1, 1 and 2 of width 3: the first gives "=" through
\* its formatter, the second nothing, the third "=", and "-" is left
C10_Witness ==
    /\ Len(progresses) = 3
    /\ Sizes = <<1, 1, 2>>
    /\ \E k \in DOMAIN repl :
          /\ repl[k].property = s_bars
          /\ repl[k].value = <<"<", "0", ":", "=", ">", "|", "=", "|", "-">>

====
